---- MODULE Spec2Model ----
(***************************************************************************)
(* A state-machine model of the car-sim multiplayer core: the server's     *)
(* PlayerManager registry, the socket handlers that drive it, the client   *)
(* store that mirrors it and the client-side collision resolver.           *)
(*                                                                         *)
(* Strings that the code inspects character by character (player names)    *)
(* are sequences of one-character strings, so that trim() and              *)
(* toLowerCase() are computed, not assumed.  Times are milliseconds.       *)
(***************************************************************************)
EXTENDS Integers, Sequences, FiniteSets, TLC

VARIABLES
  now,        \* Date.now(), shared by server and clients
  players,    \* PlayerManager.players : socket id -> Player
  usedNames,  \* PlayerManager.usedNames
  conns,      \* socket ids of the live connections
  everConn,   \* socket ids handed out so far (ids are never reused)
  timers,     \* pending setTimeout callbacks of the connection handler
  toServer,   \* per connection: client messages in flight, in send order
  toClient,   \* per connection: server messages in flight, in send order
  store,      \* per client: the zustand store (playerId, "" for null; players;
              \* isConnected)
  local,      \* per client: treeCollisionTimestamps, the Vehicle's lastUpdateRef
              \* and the SocketService's socket
  lastOp,     \* the most recent PlayerManager call and what it returned
  emitted,    \* the messages emitted by the most recent server callback
  leftSeen,   \* per client: the ids whose player:left it has processed
  released,   \* names whose holder has been removed from the registry
  lastScan,   \* what the most recent client collision scan did
  steps       \* number of client-initiated steps so far (bounds a run)

vars == <<now, players, usedNames, conns, everConn, timers, toServer,
          toClient, store, local, lastOp, emitted, leftSeen, released, lastScan, steps>>

-----------------------------------------------------------------------------
(* Bounds of the model *)

SocketIds == {"s1", "s2"}
MaxQueue == 1
MaxSends == 1
MaxCalls == 4
MaxFrames == 2
MaxDamageFrames == 4
MaxOutbox == 3
MaxStoreCalls == 3
StartTime == 20000
SystemHorizon == 22000
ApiHorizon == 21000
CollisionHorizon == 32000
HexDigits == {"A", "1"}

-----------------------------------------------------------------------------
(* Generic helpers *)

Null == [null |-> TRUE]
Bool(b) == [value |-> b]

Put(m, k, v) == [x \in DOMAIN m \cup {k} |-> IF x = k THEN v ELSE m[x]]
Del(m, k) == [x \in DOMAIN m \ {k} |-> m[x]]

\* { ...p, ...u } : every key of u overrides the key of p
Merge(p, u) == [f \in DOMAIN p \cup DOMAIN u |-> IF f \in DOMAIN u THEN u[f] ELSE p[f]]

Min(a, b) == IF a < b THEN a ELSE b
Max(a, b) == IF a > b THEN a ELSE b

Vec(x, y, z) == [x |-> x, y |-> y, z |-> z]
ZeroVec == Vec(0, 0, 0)

-----------------------------------------------------------------------------
(* String functions used on names *)

LowerOf == [A |-> "a", B |-> "b", C |-> "c", D |-> "d", E |-> "e", F |-> "f",
            G |-> "g", H |-> "h", I |-> "i", J |-> "j", K |-> "k", L |-> "l",
            M |-> "m", N |-> "n", O |-> "o", P |-> "p", Q |-> "q", R |-> "r",
            S |-> "s", T |-> "t", U |-> "u", V |-> "v", W |-> "w", X |-> "x",
            Y |-> "y", Z |-> "z"]

toLowerCase(s) == [i \in 1..Len(s) |-> IF s[i] \in DOMAIN LowerOf THEN LowerOf[s[i]] ELSE s[i]]

WhiteSpace == {" ", "\t", "\n"}

RECURSIVE trimStart(_)
trimStart(s) == IF s # <<>> /\ Head(s) \in WhiteSpace THEN trimStart(Tail(s)) ELSE s

RECURSIVE trimEnd(_)
trimEnd(s) == IF s # <<>> /\ s[Len(s)] \in WhiteSpace
              THEN trimEnd(SubSeq(s, 1, Len(s) - 1)) ELSE s

trim(s) == trimEnd(trimStart(s))

\* crypto.randomBytes(..).toString('hex').slice(0, length).toUpperCase():
\* any string of `length` upper-case hex digits; the model draws the digits
\* from HexDigits and repeats one digit.
generateRandomHex(length) == {[i \in 1..length |-> d] : d \in HexDigits}

PlayerPrefix == <<"P", "l", "a", "y", "e", "r", " ">>

-----------------------------------------------------------------------------
(* PlayerManager.  Every method is an operator from the registry state     *)
(* rs = [players, usedNames] to the set of its possible outcomes; the      *)
(* random draws are the only source of more than one outcome.              *)

Registry == [players |-> players, usedNames |-> usedNames]

\* do { name = `Player ${hex}` } while (usedNames.has(name)); usedNames.add(name)
generateUniquePlayerName(used) ==
  {[name |-> n, usedNames |-> used \cup {n}] :
     n \in {PlayerPrefix \o h : h \in generateRandomHex(6)} \ used}

nameTaken(rs, n) ==
  \/ n \in rs.usedNames
  \/ \E id \in DOMAIN rs.players : toLowerCase(rs.players[id].name) = toLowerCase(n)

ensureUniquePlayerName(rs, requestedName) ==
  IF trim(requestedName) = <<>>
  THEN generateUniquePlayerName(rs.usedNames)
  ELSE IF ~nameTaken(rs, requestedName)
  THEN {[name |-> requestedName, usedNames |-> rs.usedNames \cup {requestedName}]}
  ELSE {[name |-> u, usedNames |-> rs.usedNames \cup {u}] :
          u \in {n \in {requestedName \o <<"_">> \o h : h \in generateRandomHex(4)} :
                   ~nameTaken(rs, n)}}

SpawnPositions == {Vec(0, 0, 0)}
SpawnRotations == {ZeroVec}
Palette == {"#FF5252"}

generateRandomSpawnPosition == SpawnPositions
generateRandomRotation == SpawnRotations
getRandomColor == Palette

addPlayer(rs, id, t) ==
  UNION {
    {[players |-> Put(rs.players, id, p), usedNames |-> g.usedNames, ret |-> p] :
       p \in {[id |-> id, name |-> g.name, position |-> pos, rotation |-> rot,
               velocity |-> ZeroVec, color |-> col, lastUpdate |-> t,
               health |-> 100, joinTime |-> t] :
                pos \in generateRandomSpawnPosition, rot \in generateRandomRotation,
                col \in getRandomColor}} :
    g \in generateUniquePlayerName(rs.usedNames)}

\* `if (updates.name)`: the name handling runs for a non-empty string only
hasTruthyName(updates) == "name" \in DOMAIN updates /\ updates.name # <<>>

\* The names updatePlayer may resolve a truthy updates.name to, after the old
\* name was deleted from usedNames (the player's record is still in the map).
resolveName(rs, player, updates) ==
  LET freed == [rs EXCEPT !.usedNames = @ \ {player.name}]
  IN  IF trim(updates.name) = <<>>
      THEN generateUniquePlayerName(freed.usedNames)
      ELSE ensureUniquePlayerName(freed, trim(updates.name))

\* updatePlayer with the existence check made after the name handling
updatePlayerLateCheck(rs, id, updates, t) ==
  IF id \in DOMAIN rs.players \/ ~hasTruthyName(updates)
  THEN IF id \notin DOMAIN rs.players
       THEN {[players |-> rs.players, usedNames |-> rs.usedNames, ret |-> Null,
              updates |-> updates]}
       ELSE {LET upd == IF hasTruthyName(updates)
                        THEN [updates EXCEPT !.name = r.name] ELSE updates
                 updatedPlayer == Merge(Merge(rs.players[id], upd), [lastUpdate |-> t])
             IN  [players |-> Put(rs.players, id, updatedPlayer),
                  usedNames |-> r.usedNames, ret |-> updatedPlayer, updates |-> upd] :
             r \in IF hasTruthyName(updates)
                   THEN resolveName(rs, rs.players[id], updates)
                   ELSE {[name |-> << >>, usedNames |-> rs.usedNames]}}
  ELSE {[players |-> rs.players, usedNames |-> r.usedNames, ret |-> Null,
         updates |-> [updates EXCEPT !.name = r.name]] :
        r \in ensureUniquePlayerName(rs, trim(updates.name))}

\* updates is mutated in place (updates.name = ...), so the outcome carries it
updatePlayer(rs, id, updates, t) ==
  IF id \notin DOMAIN rs.players
  THEN {[players |-> rs.players, usedNames |-> rs.usedNames, ret |-> Null,
         updates |-> updates]}
  ELSE LET player == rs.players[id]
           resolved == IF hasTruthyName(updates)
                       THEN resolveName(rs, player, updates)
                       ELSE {[name |-> <<>>, usedNames |-> rs.usedNames]}
       IN  {LET upd == IF hasTruthyName(updates)
                       THEN [updates EXCEPT !.name = r.name] ELSE updates
                updatedPlayer == Merge(Merge(player, upd), [lastUpdate |-> t])
            IN  [players |-> Put(rs.players, id, updatedPlayer),
                 usedNames |-> r.usedNames, ret |-> updatedPlayer, updates |-> upd] :
            r \in resolved}

\* respawnPlayer that forgets to re-arm the spawn protection
respawnPlayerKeepsJoinTime(rs, id, t) ==
  IF id \notin DOMAIN rs.players
  THEN {[players |-> rs.players, usedNames |-> rs.usedNames, ret |-> Null]}
  ELSE {LET updatedPlayer == Merge(rs.players[id],
                                   [position |-> pos, rotation |-> rot,
                                    velocity |-> ZeroVec, health |-> 100,
                                    lastUpdate |-> t])
        IN  [players |-> Put(rs.players, id, updatedPlayer),
             usedNames |-> rs.usedNames, ret |-> updatedPlayer] :
        pos \in generateRandomSpawnPosition, rot \in generateRandomRotation}

respawnPlayer(rs, id, t) ==
  IF id \notin DOMAIN rs.players
  THEN {[players |-> rs.players, usedNames |-> rs.usedNames, ret |-> Null]}
  ELSE {LET updatedPlayer == Merge(rs.players[id],
                                   [position |-> pos, rotation |-> rot,
                                    velocity |-> ZeroVec, health |-> 100,
                                    joinTime |-> t, lastUpdate |-> t])
        IN  [players |-> Put(rs.players, id, updatedPlayer),
             usedNames |-> rs.usedNames, ret |-> updatedPlayer] :
        pos \in generateRandomSpawnPosition, rot \in generateRandomRotation}

\* removePlayer that frees the name but leaves the record in the map
removePlayerKeepsRecord(rs, id) ==
  IF id \in DOMAIN rs.players
  THEN {[players |-> rs.players,
         usedNames |-> rs.usedNames \ {rs.players[id].name}, ret |-> Bool(TRUE)]}
  ELSE {[players |-> rs.players, usedNames |-> rs.usedNames, ret |-> Bool(FALSE)]}

removePlayer(rs, id) ==
  IF id \in DOMAIN rs.players
  THEN {[players |-> Del(rs.players, id),
         usedNames |-> rs.usedNames \ {rs.players[id].name}, ret |-> Bool(TRUE)]}
  ELSE {[players |-> rs.players, usedNames |-> rs.usedNames, ret |-> Bool(FALSE)]}

getAllPlayers(ps) == {ps[id] : id \in DOMAIN ps}

-----------------------------------------------------------------------------
(* setupSocketHandlers.  A callback is an operator from the registry state *)
(* to its outcomes: the new registry, the PlayerManager call it made (op), *)
(* the messages it emitted in order (emits) and the timers it set.         *)
(* scope: "socket" = socket.emit, "broadcast" = socket.broadcast.emit,     *)
(* "all" = io.emit.                                                        *)

Emit(event, payload, scope, from) ==
  [event |-> event, payload |-> payload, scope |-> scope, from |-> from]

\* a PlayerManager call: its arguments and its result
Call(rs, op, id, updates, ret) == [op |-> op, id |-> id, updates |-> updates, ret |-> ret]

Outcome(r, call, emits, tms) ==
  [players |-> r.players, usedNames |-> r.usedNames, op |-> call,
   emits |-> emits, timers |-> tms]

\* the connection callback sending the player list read before addPlayer
OnConnectionStaleList(rs, s, t) ==
  {LET player == a.ret
   IN  Outcome(a, Call(rs, "addPlayer", s, <<>>, player),
               << Emit("game:state",
                       [playerId |-> s, players |-> getAllPlayers(rs.players)],
                       "socket", s),
                  Emit("player:joined", player, "broadcast", s) >>,
               { [event |-> "player:joined", from |-> s, due |-> t + 1000,
                  payload |-> player],
                 [event |-> "game:update", from |-> s, due |-> t + 2000,
                  payload |-> [playerId |-> s, position |-> player.position,
                               rotation |-> player.rotation,
                               velocity |-> player.velocity,
                               color |-> player.color]] }) :
   a \in addPlayer(rs, s, t)}

OnConnection(rs, s, t) ==
  {LET player == a.ret
   IN  Outcome(a, Call(rs, "addPlayer", s, <<>>, player),
               << Emit("game:state",
                       [playerId |-> s, players |-> getAllPlayers(a.players)],
                       "socket", s),
                  Emit("player:joined", player, "broadcast", s) >>,
               { [event |-> "player:joined", from |-> s, due |-> t + 1000,
                  payload |-> player],
                 [event |-> "game:update", from |-> s, due |-> t + 2000,
                  payload |-> [playerId |-> s, position |-> player.position,
                               rotation |-> player.rotation,
                               velocity |-> player.velocity,
                               color |-> player.color]] }) :
   a \in addPlayer(rs, s, t)}

OnTimer(rs, tm) ==
  {[players |-> rs.players, usedNames |-> rs.usedNames, op |-> Null,
    emits |-> << Emit(tm.event, tm.payload, "broadcast", tm.from) >>,
    timers |-> {}]}

OnPlayerUpdate(rs, s, data, t) ==
  {Outcome(u, Call(rs, "updatePlayer", s, data, u.ret),
           << Emit("game:update", Merge([playerId |-> s], u.updates), "broadcast", s) >>,
           {}) :
   u \in updatePlayer(rs, s, data, t)}

OnPlayerCustomize(rs, s, data, t) ==
  {Outcome(u, Call(rs, "updatePlayer", s, data, u.ret),
           << Emit("player:customized", Merge([playerId |-> s], u.updates), "all", s) >>,
           {}) :
   u \in updatePlayer(rs, s, data, t)}

OnPlayerSetName(rs, s, data, t) ==
  {Outcome(u, Call(rs, "updatePlayer", s, [name |-> data.name], u.ret),
           IF u.ret # Null
           THEN << Emit("player:nameupdated", [playerId |-> s, name |-> u.ret.name],
                        "all", s) >>
           ELSE << >>,
           {}) :
   u \in updatePlayer(rs, s, [name |-> data.name], t)}

OnPlayerRespawn(rs, s, t) ==
  {Outcome(r, Call(rs, "respawnPlayer", s, <<>>, r.ret),
           IF r.ret # Null
           THEN << Emit("player:respawned",
                        [playerId |-> s, position |-> r.ret.position,
                         rotation |-> r.ret.rotation, velocity |-> r.ret.velocity,
                         health |-> r.ret.health, joinTime |-> r.ret.joinTime],
                        "all", s) >>
           ELSE << >>,
           {}) :
   r \in respawnPlayer(rs, s, t)}

OnDisconnect(rs, s) ==
  {Outcome(r, Call(rs, "removePlayer", s, <<>>, r.ret),
           << Emit("player:left", s, "all", s) >>, {}) :
   r \in removePlayer(rs, s)}

\* the callback registered for a client event
OnMessage(rs, s, msg, t) ==
  CASE msg.event = "player:update"    -> OnPlayerUpdate(rs, s, msg.payload, t)
    [] msg.event = "player:customize" -> OnPlayerCustomize(rs, s, msg.payload, t)
    [] msg.event = "player:setname"   -> OnPlayerSetName(rs, s, msg.payload, t)
    [] msg.event = "player:respawn"   -> OnPlayerRespawn(rs, s, t)

-----------------------------------------------------------------------------
(* The server process: one callback runs to completion per step *)

Recipients(e, live) ==
  CASE e.scope = "socket"    -> {e.from} \cap live
    [] e.scope = "broadcast" -> live \ {e.from}
    [] e.scope = "all"       -> live

RECURSIVE Enqueue(_, _, _)
Enqueue(q, emits, live) ==
  IF emits = << >> THEN q
  ELSE LET e == Head(emits)
       IN  Enqueue([c \in DOMAIN q |->
                      IF c \in Recipients(e, live)
                      THEN Append(q[c], [event |-> e.event, payload |-> e.payload])
                      ELSE q[c]],
                   Tail(emits), live)

\* History for the name-release property: removePlayer of a registered id
\* releases its name; the release is used up by the next call of
\* updatePlayer that asks for exactly that name.
Released(call) ==
  IF call = Null THEN released
  ELSE IF call.op = "removePlayer" /\ call.id \in DOMAIN players
  THEN released \cup {players[call.id].name}
  ELSE IF call.op = "updatePlayer" /\ "name" \in DOMAIN call.updates
  THEN released \ {call.updates.name}
  ELSE released

\* the effect of a callback's outcome on the server and on the channels of
\* the connections in `live`; the channels of `closed` are torn down
ServerStep(out, live, closed) ==
  /\ players' = out.players
  /\ usedNames' = out.usedNames
  /\ lastOp' = IF out.op = Null THEN lastOp
               ELSE Merge(out.op, [seq |-> 1 - lastOp.seq])
  /\ emitted' = out.emits
  /\ leftSeen' = leftSeen
  /\ released' = Released(out.op)
  /\ LET q == Enqueue(toClient, out.emits, live)
     IN  /\ \A c \in SocketIds : Len(q[c]) <= MaxQueue
         /\ toClient' = [c \in SocketIds |-> IF c \in closed THEN << >> ELSE q[c]]

Connect(s) ==
  /\ s \notin everConn
  /\ \E out \in OnConnection(Registry, s, now) :
       /\ ServerStep(out, conns \cup {s}, {})
       /\ timers' = timers \cup out.timers
  /\ conns' = conns \cup {s}
  /\ everConn' = everConn \cup {s}
  /\ UNCHANGED <<now, toServer, store, local, lastScan, steps>>

ServerReceive(s) ==
  /\ s \in conns
  /\ toServer[s] # << >>
  /\ \E out \in OnMessage(Registry, s, Head(toServer[s]), now) :
       ServerStep(out, conns, {})
  /\ toServer' = [toServer EXCEPT ![s] = Tail(@)]
  /\ UNCHANGED <<now, conns, everConn, timers, store, local, lastScan, steps>>

Disconnect(s) ==
  /\ s \in conns
  /\ \E out \in OnDisconnect(Registry, s) : ServerStep(out, conns \ {s}, {s})
  /\ conns' = conns \ {s}
  /\ toServer' = [toServer EXCEPT ![s] = << >>]
  /\ UNCHANGED <<now, everConn, timers, store, local, lastScan, steps>>

\* setTimeout callbacks run in the order of their expiry
FireTimer(tm) ==
  /\ tm \in timers
  /\ tm.due <= now
  /\ \A o \in timers : o.due >= tm.due
  /\ \E out \in OnTimer(Registry, tm) : ServerStep(out, conns, {})
  /\ timers' = timers \ {tm}
  /\ UNCHANGED <<now, conns, everConn, toServer, store, local, lastScan, steps>>

\* no message is in flight
Delivered == \A c \in SocketIds : toServer[c] = << >> /\ toClient[c] = << >>

\* time passes; an expired timer runs before the clock moves on, and
\* messages travel faster than the clock ticks
Tick(d, horizon) ==
  /\ now + d <= horizon
  /\ Delivered
  /\ \A tm \in timers : tm.due >= now + d
  /\ now' = now + d
  /\ UNCHANGED <<players, usedNames, conns, everConn, timers, toServer, toClient,
                 store, local, lastOp, emitted, leftSeen, released, lastScan, steps>>

-----------------------------------------------------------------------------
(* The client store (gameStore.ts) *)

SocketIdChars == [s1 |-> <<"s", "1">>, s2 |-> <<"s", "2">>]

substring(s, from, to) == SubSeq(s, from + 1, Min(to, Len(s)))

setPlayers(list) == [i \in {p.id : p \in list} |-> CHOOSE p \in list : p.id = i]

\* updatePlayer storing the updates in place of the known player
storeUpdatePlayerReplace(ps, id, updates, t) ==
  IF id \notin DOMAIN ps
  THEN Put(ps, id,
           Merge([id |-> id, name |-> PlayerPrefix \o substring(SocketIdChars[id], 0, 4),
                  position |-> ZeroVec, rotation |-> ZeroVec, velocity |-> ZeroVec,
                  color |-> "#FF5252", health |-> 100, lastUpdate |-> t,
                  joinTime |-> t],
                 updates))
  ELSE Put(ps, id, updates)

storeUpdatePlayer(ps, id, updates, t) ==
  IF id \notin DOMAIN ps
  THEN Put(ps, id,
           Merge([id |-> id, name |-> PlayerPrefix \o substring(SocketIdChars[id], 0, 4),
                  position |-> ZeroVec, rotation |-> ZeroVec, velocity |-> ZeroVec,
                  color |-> "#FF5252", health |-> 100, lastUpdate |-> t,
                  joinTime |-> t],
                 updates))
  ELSE Put(ps, id, Merge(ps[id], updates))

storeRemovePlayer(ps, id) == Del(ps, id)

Undefined == [undefined |-> TRUE]

Field(r, f) == IF f \in DOMAIN r THEN r[f] ELSE Undefined

Pick(r, fs) == [f \in fs |-> Field(r, f)]

\* SocketService.setupListeners: the store after the listener of msg ran
OnServerMessage(st, msg, t) ==
  LET p == msg.payload
  IN  CASE msg.event = "game:state" ->
             [st EXCEPT !.playerId = p.playerId, !.players = setPlayers(p.players)]
        [] msg.event = "game:update" ->
             [st EXCEPT !.players =
                storeUpdatePlayer(@, p.playerId, Del(p, "playerId"), t)]
        [] msg.event = "player:joined" ->
             [st EXCEPT !.players = storeUpdatePlayer(@, p.id, p, t)]
        [] msg.event = "player:left" ->
             [st EXCEPT !.players = storeRemovePlayer(@, p)]
        [] msg.event = "player:customized" ->
             [st EXCEPT !.players =
                storeUpdatePlayer(@, p.playerId, Pick(p, {"color"}), t)]
        [] msg.event = "player:nameupdated" ->
             [st EXCEPT !.players =
                storeUpdatePlayer(@, p.playerId, Pick(p, {"name"}), t)]
        [] msg.event = "player:respawned" ->
             [st EXCEPT !.players =
                storeUpdatePlayer(@, p.playerId,
                                  Pick(p, {"position", "rotation", "velocity",
                                           "health", "joinTime"}), t)]

ClientReceive(c) ==
  /\ c \in conns
  /\ toClient[c] # << >>
  /\ store' = [store EXCEPT ![c] = OnServerMessage(@, Head(toClient[c]), now)]
  /\ toClient' = [toClient EXCEPT ![c] = Tail(@)]
  /\ leftSeen' = IF Head(toClient[c]).event = "player:left"
                 THEN [leftSeen EXCEPT ![c] = @ \cup {Head(toClient[c]).payload}]
                 ELSE leftSeen
  /\ UNCHANGED <<now, players, usedNames, conns, everConn, timers, toServer,
                 local, lastOp, emitted, released, lastScan, steps>>

\* socket.emit(event, payload) on the client; cap bounds the channel and
\* socket.emit of each of msgs on client c's connected socket
Transmit(c, msgs, cap) ==
  /\ c \in conns
  /\ Len(toServer[c]) + Len(msgs) <= cap
  /\ toServer' = [toServer EXCEPT ![c] = @ \o msgs]

\* limit the number of client steps of a run
Count(limit) ==
  /\ steps < limit
  /\ steps' = steps + 1

Send(c, msgs, cap, limit) == Transmit(c, msgs, cap) /\ Count(limit)

Msg(event, payload) == [event |-> event, payload |-> payload]

TypedNames == { << >>, <<"A", "n">> }

\* NamePrompt.handleSubmit: the typed text is trimmed and sent, empty or not
ClientSetName(c, typed) ==
  /\ Send(c, <<Msg("player:setname", [name |-> trim(typed)])>>, MaxQueue, MaxSends)
  /\ UNCHANGED <<now, players, usedNames, conns, everConn, timers, toClient,
                 store, local, lastOp, emitted, leftSeen, released, lastScan>>

-----------------------------------------------------------------------------
(* Collisions (collisionUtils.ts, collisionService.ts, Vehicle.tsx).       *)
(* Lengths and speeds are in hundredths of a unit; rotations are zero.     *)

VEHICLE_WIDTH == 200
VEHICLE_HEIGHT == 160
VEHICLE_LENGTH == 400
TREE_RADIUS == 150
MIN_DAMAGE_SPEED == 10
COLLISION_COOLDOWN == 1000
SPAWN_PROTECTION_TIME == 10000
MAX_COLLISION_DISTANCE == 500
MAX_DAMAGE == 25
MAX_SPEED == 100
UPDATE_INTERVAL == 50

\* Math.sqrt, rounded down: the root lies in lo..hi
RECURSIVE sqrtBetween(_, _, _)
sqrtBetween(n, lo, hi) ==
  IF lo = hi THEN lo
  ELSE LET mid == (lo + hi + 1) \div 2
       IN  IF mid * mid <= n THEN sqrtBetween(n, mid, hi)
           ELSE sqrtBetween(n, lo, mid - 1)

sqrt(n) == sqrtBetween(n, 0, n)

\* the module-level _box, rebuilt on every call and returned by reference;
\* for rotationY = 0 the four corners are position +- (halfWidth, halfLength)
createVehicleBoundingBox(position) ==
  LET halfWidth == (VEHICLE_WIDTH * 85) \div 200
      halfHeight == (VEHICLE_HEIGHT * 85) \div 200
      halfLength == (VEHICLE_LENGTH * 85) \div 200
  IN  [min |-> Vec(position.x - halfWidth, position.y - halfHeight, position.z - halfLength),
       max |-> Vec(position.x + halfWidth, position.y + halfHeight, position.z + halfLength)]

intersectsBox(a, b) ==
  ~ \/ b.max.x < a.min.x \/ b.min.x > a.max.x
    \/ b.max.y < a.min.y \/ b.min.y > a.max.y
    \/ b.max.z < a.min.z \/ b.min.z > a.max.z

\* box1 and box2 are the same object: box1 reads what the second call wrote
checkVehicleCollision(player1, player2) ==
  LET dx == player1.position.x - player2.position.x
      dz == player1.position.z - player2.position.z
  IN  IF dx * dx + dz * dz > MAX_COLLISION_DISTANCE * MAX_COLLISION_DISTANCE
      THEN FALSE
      ELSE LET box2 == createVehicleBoundingBox(player2.position)
               box1 == box2
           IN  intersectsBox(box1, box2)

checkTreeCollision(playerPosition, treePosition) ==
  LET dx == playerPosition.x - treePosition.x
      dz == playerPosition.z - treePosition.z
      reach == VEHICLE_WIDTH \div 2 + TREE_RADIUS
  IN  dx * dx + dz * dz < reach * reach

\* the frame inputs keep speed * MAX_DAMAGE a multiple of MAX_SPEED
calculateDamage(speed) ==
  IF speed < MIN_DAMAGE_SPEED THEN 0
  ELSE Min(MAX_DAMAGE, (speed * MAX_DAMAGE) \div MAX_SPEED)

\* hasSpawnProtection with the collision cooldown taken for the window
hasSpawnProtectionShortWindow(player, t) ==
  IF "joinTime" \notin DOMAIN player \/ player.joinTime = 0 THEN FALSE
  ELSE t - player.joinTime < COLLISION_COOLDOWN

hasSpawnProtection(player, t) ==
  IF "joinTime" \notin DOMAIN player \/ player.joinTime = 0 THEN FALSE
  ELSE t - player.joinTime < SPAWN_PROTECTION_TIME

getPlayerSpeed(player) ==
  sqrt(player.velocity.x * player.velocity.x + player.velocity.y * player.velocity.y
       + player.velocity.z * player.velocity.z)

hasRecentCollision(player, t) ==
  IF "lastCollision" \notin DOMAIN player \/ player.lastCollision = 0 THEN FALSE
  ELSE t - player.lastCollision < COLLISION_COOLDOWN

\* every number of the model is an integer: health is NaN only when absent
healthIsNaN(player) == "health" \notin DOMAIN player

\* damagePlayer without the lower clamp
damagePlayerUnclamped(ps, id, amount, t) ==
  IF id \notin DOMAIN ps THEN ps
  ELSE LET player == ps[id]
           currentHealth == IF healthIsNaN(player) THEN 100 ELSE player.health
       IN  Put(ps, id, Merge(player, [health |-> currentHealth - amount,
                                      lastCollision |-> t]))

\* gameStore.damagePlayer
damagePlayer(ps, id, amount, t) ==
  IF id \notin DOMAIN ps THEN ps
  ELSE LET player == ps[id]
           currentHealth == IF healthIsNaN(player) THEN 100 ELSE player.health
       IN  Put(ps, id, Merge(player, [health |-> Max(0, currentHealth - amount),
                                      lastCollision |-> t]))

\* the health update a scan sends: computed from the scan's snapshot
healthUpdate(player, damage, t) ==
  Msg("player:update",
      [health |-> IF healthIsNaN(player) THEN 100 - damage ELSE player.health - damage,
       lastCollision |-> t])

\* the loop of checkVehicleCollisions over the other players `todo`; snap is
\* the state read once before the loop, acc the live store and the sends
RECURSIVE scanVehicles(_, _, _, _, _)
scanVehicles(snap, playerId, todo, acc, t) ==
  IF todo = {} THEN acc
  ELSE LET otherPlayerId == CHOOSE o \in todo : TRUE
           player == snap[playerId]
           otherPlayer == snap[otherPlayerId]
           playerCanTakeDamage ==
             ~hasRecentCollision(player, t) /\ ~hasSpawnProtection(player, t)
           otherPlayerCanTakeDamage ==
             ~hasRecentCollision(otherPlayer, t) /\ ~hasSpawnProtection(otherPlayer, t)
           relativeSpeed == (getPlayerSpeed(player) + getPlayerSpeed(otherPlayer)) \div 2
           damage == calculateDamage(relativeSpeed)
           own == playerCanTakeDamage /\ damage > 0
           other == otherPlayerCanTakeDamage /\ damage > 0
           ps1 == IF own THEN damagePlayer(acc.players, playerId, damage, t)
                  ELSE acc.players
           ps2 == IF other THEN damagePlayer(ps1, otherPlayerId, damage, t) ELSE ps1
           next == IF ~checkVehicleCollision(player, otherPlayer) THEN acc
                   ELSE [players |-> ps2,
                         sent |-> IF own THEN Append(acc.sent, healthUpdate(player, damage, t))
                                  ELSE acc.sent,
                         damaged |-> acc.damaged
                                       \cup (IF own THEN {playerId} ELSE {})
                                       \cup (IF other THEN {otherPlayerId} ELSE {}),
                         collided |-> acc.collided \cup {otherPlayerId}]
       IN  scanVehicles(snap, playerId, todo \ {otherPlayerId}, next, t)

\* checkVehicleCollisions damaging the local player only
checkVehicleCollisionsOwnOnly(ps, playerId, t) ==
  LET none == [players |-> ps, sent |-> << >>, damaged |-> {}, collided |-> {}]
      r == IF playerId = "" \/ playerId \notin DOMAIN ps THEN none
           ELSE scanVehicles(ps, playerId, DOMAIN ps \ {playerId}, none, t)
  IN  [r EXCEPT !.players = [id \in DOMAIN ps |->
                               IF id = playerId THEN r.players[id] ELSE ps[id]]]

checkVehicleCollisions(ps, playerId, t) ==
  LET none == [players |-> ps, sent |-> << >>, damaged |-> {}, collided |-> {}]
  IN  IF playerId = "" \/ playerId \notin DOMAIN ps THEN none
      ELSE scanVehicles(ps, playerId, DOMAIN ps \ {playerId}, none, t)

\* `tree_${x}_${z}`
treeId(tree) == <<tree.x, tree.z>>

\* hasRecentTreeCollision: an expired record is deleted by the lookup
hasRecentTreeCollision(ts, id, t) ==
  id \in DOMAIN ts /\ ts[id] # 0 /\ t - ts[id] < COLLISION_COOLDOWN

forgetExpired(ts, id, t) ==
  IF id \in DOMAIN ts /\ ts[id] # 0 /\ ~(t - ts[id] < COLLISION_COOLDOWN)
  THEN Del(ts, id) ELSE ts

\* the loop of checkTreeCollisions over the trees `todo`
RECURSIVE scanTrees(_, _, _, _, _, _)
scanTrees(snap, playerId, playerPosition, todo, acc, t) ==
  IF todo = {} THEN acc
  ELSE LET tree == CHOOSE o \in todo : TRUE
           player == snap[playerId]
           skipDamage == hasRecentCollision(player, t) \/ hasSpawnProtection(player, t)
           damage == calculateDamage(getPlayerSpeed(player))
           recent == hasRecentTreeCollision(acc.timestamps, treeId(tree), t)
           ts == forgetExpired(acc.timestamps, treeId(tree), t)
           collides == ~recent /\ checkTreeCollision(playerPosition, tree)
           seen == [acc EXCEPT !.timestamps = ts,
                               !.trees = IF collides THEN @ \cup {treeId(tree)} ELSE @]
           next == IF collides /\ ~skipDamage /\ damage > 0
                   THEN [seen EXCEPT
                           !.players = damagePlayer(@, playerId, damage, t),
                           !.sent = Append(@, healthUpdate(player, damage, t)),
                           !.damaged = @ \cup {playerId},
                           !.timestamps = Put(@, treeId(tree), t)]
                   ELSE seen
       IN  scanTrees(snap, playerId, playerPosition, todo \ {tree}, next, t)

checkTreeCollisions(ps, timestamps, playerId, playerPosition, trees, t) ==
  LET none == [players |-> ps, sent |-> << >>, damaged |-> {}, trees |-> {},
               timestamps |-> timestamps]
  IN  IF playerId = "" \/ playerId \notin DOMAIN ps THEN none
      ELSE scanTrees(ps, playerId, playerPosition, trees, none, t)

\* the trees that window.updateNearbyTrees handed to the vehicle
Trees == {Vec(1000, 0, 0), Vec(1100, 0, 100)}

\* the clients whose vehicle is driven; the other vehicles stay parked
Drivers == {"s1"}

\* The physics of the frame (keys, friction, collision response) is left
\* open: the vehicle's position and velocity of a frame are inputs.
FramePositions == {Vec(0, 0, 0), Vec(1000, 0, 0)}
FrameVelocities == {ZeroVec, Vec(200, 0, 0)}

\* Vehicle: one useFrame callback -- both scans, then the throttled publish;
\* trees is nearbyTrees.current, the list the last mounted Chunk handed over
Frame(c, position, velocity, trees) ==
  /\ store[c].playerId # ""
  /\ store[c].playerId \in DOMAIN store[c].players
  /\ LET playerId == store[c].playerId
         publish == now - local[c].lastUpdateRef > UPDATE_INTERVAL
         playerUpdate == [position |-> position, rotation |-> ZeroVec,
                          velocity |-> velocity]
     IN  \E v \in {checkVehicleCollisions(store[c].players, playerId, now)} :
         \E tr \in {checkTreeCollisions(v.players, local[c].treeCollisionTimestamps,
                                        playerId, position, trees, now)} :
         \E msgs \in {v.sent \o tr.sent
                        \o IF publish THEN <<Msg("player:update", playerUpdate)>>
                           ELSE << >>} :
           /\ Transmit(c, msgs, MaxOutbox)
           /\ store' = [store EXCEPT ![c].players =
                          IF publish
                          THEN storeUpdatePlayer(tr.players, playerId, playerUpdate, now)
                          ELSE tr.players]
           /\ local' = [local EXCEPT
                          ![c].treeCollisionTimestamps = tr.timestamps,
                          ![c].lastUpdateRef = IF publish THEN now ELSE @]
           /\ lastScan' = [seq |-> 1 - lastScan.seq, client |-> c,
                           damaged |-> v.damaged \cup tr.damaged,
                           collided |-> v.collided, trees |-> tr.trees, sent |-> msgs]
  /\ UNCHANGED <<now, players, usedNames, conns, everConn, timers, toClient,
                 lastOp, emitted, leftSeen, released>>

-----------------------------------------------------------------------------
(* A harness that calls addPlayer and the handler closures directly, for   *)
(* any socket id, registered or not.                                       *)

NameMessages ==
  { [event |-> "player:setname", payload |-> [name |-> n]] :
      n \in { << >>, <<"A", "n">>, <<"a", "n">>, <<" ", "A", "n">> } }
  \cup { [event |-> "player:update", payload |-> [name |-> <<" ">>]] }

HandlerMessages ==
  { [event |-> "player:update", payload |-> [health |-> 40, velocity |-> Vec(25, 0, 0)]],
    [event |-> "player:update", payload |-> [playerId |-> "s2", health |-> 0]],
    [event |-> "player:customize", payload |-> [color |-> "#448AFF"]],
    [event |-> "player:setname", payload |-> [name |-> <<"A", "n">>]],
    [event |-> "player:respawn", payload |-> << >>] }

ApiStep(out) ==
  /\ ServerStep(out, conns, {})
  /\ UNCHANGED <<now, conns, timers, toServer, store, local, lastScan>>

\* a call made on behalf of a client; the harness makes at most MaxCalls
ClientCall(out) ==
  /\ steps < MaxCalls
  /\ steps' = steps + 1
  /\ ApiStep(out)
  /\ UNCHANGED everConn

\* ids are never reused: addPlayer is called once per socket id
ApiAddPlayer(id) ==
  /\ id \notin everConn
  /\ everConn' = everConn \cup {id}
  /\ \E a \in addPlayer(Registry, id, now) :
       ApiStep(Outcome(a, Call(Registry, "addPlayer", id, << >>, a.ret), << >>, {}))
  /\ UNCHANGED steps

InvokeHandler(s, msg) == \E out \in OnMessage(Registry, s, msg, now) : ClientCall(out)

InvokeDisconnect(s) ==
  /\ \E out \in OnDisconnect(Registry, s) : ApiStep(out)
  /\ UNCHANGED <<everConn, steps>>

-----------------------------------------------------------------------------
(* The store's actions called directly on one client's store, with player  *)
(* objects and amounts drawn from small sets.                              *)

\* a Player as the server creates it
SamplePlayer(id) ==
  (CHOOSE a \in addPlayer([players |-> << >>, usedNames |-> {}], id, StartTime) : TRUE).ret

\* Player objects handed to the store: as created, worn down, with a
\* health that is not a number (the field is absent), driving at two
\* speeds after the spawn protection has run out, and driving one car
\* length to the side
SamplePlayers(id) ==
  {SamplePlayer(id), Merge(SamplePlayer(id), [health |-> 10]),
   Del(SamplePlayer(id), "health"),
   Merge(SamplePlayer(id), [joinTime |-> StartTime - SPAWN_PROTECTION_TIME,
                            velocity |-> Vec(200, 0, 0)]),
   Merge(SamplePlayer(id), [joinTime |-> StartTime - SPAWN_PROTECTION_TIME,
                            velocity |-> Vec(0, 0, 40)]),
   Merge(SamplePlayer(id), [joinTime |-> StartTime - SPAWN_PROTECTION_TIME,
                            position |-> Vec(SamplePlayer(id).position.x + VEHICLE_LENGTH,
                                             SamplePlayer(id).position.y,
                                             SamplePlayer(id).position.z),
                            velocity |-> Vec(200, 0, 0)])}

DamageAmounts == {0, 5, 25, 150}

\* one call of a store action on client c; lastOp records the call
StoreStep(c, ps, op, id, args) ==
  /\ steps < MaxStoreCalls
  /\ steps' = steps + 1
  /\ store' = [store EXCEPT ![c].players = ps]
  /\ lastOp' = [seq |-> 1 - lastOp.seq, op |-> op, id |-> id,
                updates |-> Merge(args, [client |-> c]), ret |-> Null]
  /\ UNCHANGED <<now, players, usedNames, conns, everConn, timers, toServer,
                 toClient, local, emitted, leftSeen, released, lastScan>>

StoreSetPlayers(c, list) ==
  StoreStep(c, setPlayers(list), "setPlayers", "", [list |-> list])

\* the partial players handed to updatePlayer
StoreUpdates ==
  {[health |-> 40], [name |-> <<"A", "n">>],
   [position |-> Vec(100, 0, 0), velocity |-> Vec(0, 0, 40)]}

StoreUpdatePlayer(c, id, updates) ==
  StoreStep(c, storeUpdatePlayer(store[c].players, id, updates, now), "updatePlayer", id,
            [partial |-> updates])

StoreDamagePlayer(c, id, amount) ==
  StoreStep(c, damagePlayer(store[c].players, id, amount, now), "damagePlayer", id,
            [amount |-> amount])

StoreRemovePlayer(c, id) ==
  StoreStep(c, storeRemovePlayer(store[c].players, id), "removePlayer", id, << >>)

\* collisionService.checkVehicleCollisions(playerId) on client c's store
StoreCheckVehicleCollisions(c, playerId) ==
  \E v \in {checkVehicleCollisions(store[c].players, playerId, now)} :
    StoreStep(c, v.players, "checkVehicleCollisions", playerId,
              [sent |-> v.sent, collided |-> v.collided])

-----------------------------------------------------------------------------
(* World generation: the server's WorldGenerator and the client's          *)
(* WorldRenderer.  A random number in [0, 1) is modelled by its numerator  *)
(* over the generator's modulus; Math.floor(r * k) is the exact quotient.  *)

\* the seeds a caller passes, the numbers Math.random() can give the
\* constructor, and the world coordinates asked for
WorldSeeds == {0 - 7, 0, 1, 12345}
RandomSeeds == {3, 500000}
WorldCoords == {0 - 256, 0, 256}
RandomDraws == {0, 1073741823}

\* JavaScript's %: the remainder has the sign of the dividend
jsRem(a, m) == IF a >= 0 THEN a % m ELSE 0 - ((0 - a) % m)

\* constructor: `seed || Math.floor(Math.random() * 1000000)`
newWorldGenerator(seed) == IF seed = 0 THEN RandomSeeds ELSE {seed}

\* the closure of seededRandom: seed = (seed * 9301 + 49297) % 233280; the
\* product is taken in two parts to stay within 32 bits
seededRandom(seed) ==
  LET m == 233280
      r == (IF seed >= 0 THEN seed ELSE 0 - seed) % m
      k == (((r * 93) % m) * 100 + r) % m
  IN  IF seed >= 0 THEN (k + 49297) % m
      ELSE IF seed >= 0 - 5 THEN seed * 9301 + 49297
      ELSE 0 - ((k + m - 49297) % m)

\* the first n values of the closure, called n times (computed in halves)
RECURSIVE draws(_, _)
draws(seed, n) ==
  IF n <= 0 THEN << >>
  ELSE IF n = 1 THEN <<seededRandom(seed)>>
  ELSE LET half == draws(seed, n \div 2)
       IN  half \o draws(half[Len(half)], n - n \div 2)

\* Math.floor(random() * k) for the value r / 233280
floorOf(r, k) == (r * k) \div 233280

generateBuildings(chunkX, chunkZ, chunkSeed) ==
  LET buildingCount == floorOf(seededRandom(chunkSeed), 20) + 10
      d == draws(chunkSeed, 1 + 5 * buildingCount)
  IN  [i \in 1..buildingCount |->
         [x |-> chunkX * 256 + floorOf(d[5 * i - 3], 256),
          z |-> chunkZ * 256 + floorOf(d[5 * i - 2], 256),
          height |-> floorOf(d[5 * i - 1], 5) + 1,
          width |-> floorOf(d[5 * i], 5) + 3,
          depth |-> floorOf(d[5 * i + 1], 5) + 3]]

generateTrees(chunkX, chunkZ, chunkSeed) ==
  LET treeCount == floorOf(seededRandom(chunkSeed), 50) + 20
      d == draws(chunkSeed, 1 + 4 * treeCount)
  IN  [i \in 1..treeCount |->
         [x |-> chunkX * 256 + floorOf(d[4 * i - 2], 256),
          z |-> chunkZ * 256 + floorOf(d[4 * i - 1], 256),
          height |-> floorOf(d[4 * i], 2) + 2,
          radius |-> floorOf(d[4 * i + 1], 2) + 1]]

\* generateChunk for the world coordinates (x, z); terrainHeight and roads
\* depend on the chunk coordinates and isCity alone and are left out
generateChunk(seed, x, z) ==
  LET chunkX == x \div 256
      chunkZ == z \div 256
      chunkSeed == seed + chunkX * 16777259 + chunkZ * 16777213
      isCity == ((IF chunkX >= 0 THEN chunkX ELSE 0 - chunkX)
                   + (IF chunkZ >= 0 THEN chunkZ ELSE 0 - chunkZ)) % 2 = 0
  IN  [x |-> chunkX, z |-> chunkZ, isCity |-> isCity,
       buildings |-> IF isCity THEN generateBuildings(chunkX, chunkZ, chunkSeed)
                     ELSE << >>,
       trees |-> IF ~isCity THEN generateTrees(chunkX, chunkZ, chunkSeed)
                 ELSE << >>]

\* WorldRenderer.seededRandom(x, z): the values a call can return, as
\* numerators over 2147483647
clientSeededRandom(worldSeed, x, z) ==
  IF worldSeed = 0 THEN RandomDraws
  ELSE LET dot == x * 12345 + z * 67890
           seed == worldSeed * 16807 + dot
       IN  {jsRem(seed, 2147483647)}

\* Chunk: terrainRandom < 0.25 makes the chunk a city
terrainIsCity(terrainRandom) == terrainRandom <= 2147483647 \div 4

\* two WorldGenerator instances are constructed with the same argument and
\* each is asked for the chunk at (x, z); lastOp records the call
GetChunk(seed, x, z) ==
  /\ \E s1 \in newWorldGenerator(seed), s2 \in newWorldGenerator(seed) :
       lastOp' = [seq |-> 1 - lastOp.seq, op |-> "getChunk", id |-> "",
                  updates |-> [seed |-> seed, x |-> x, z |-> z],
                  ret |-> [first |-> generateChunk(s1, x, z),
                           second |-> generateChunk(s2, x, z)]]
  /\ UNCHANGED <<now, players, usedNames, conns, everConn, timers, toServer,
                 toClient, store, local, emitted, leftSeen, released, lastScan, steps>>

\* the Chunk component at chunk coordinates (x, z) renders twice under one
\* world seed
RenderChunk(worldSeed, x, z) ==
  /\ \E r1 \in clientSeededRandom(worldSeed, x * 5000, z * 5000),
        r2 \in clientSeededRandom(worldSeed, x * 5000, z * 5000) :
       lastOp' = [seq |-> 1 - lastOp.seq, op |-> "Chunk", id |-> "",
                  updates |-> [seed |-> worldSeed, x |-> x, z |-> z],
                  ret |-> [first |-> r1, second |-> r2,
                           isCity |-> terrainIsCity(r1)]]
  /\ UNCHANGED <<now, players, usedNames, conns, everConn, timers, toServer,
                 toClient, store, local, emitted, leftSeen, released, lastScan, steps>>

-----------------------------------------------------------------------------
(* Binary framing (serialization.ts).  Numbers are integers; a buffer is   *)
(* the sequence of its bytes.                                              *)

FLOAT_SIZE == 4

RECURSIVE pow2(_)
pow2(n) == IF n <= 0 THEN 1 ELSE 2 * pow2(n - 1)

\* the exponent of a >= 1: the largest e with 2^e <= a
RECURSIVE exponentOf(_)
exponentOf(a) == IF a < 2 THEN 0 ELSE 1 + exponentOf(a \div 2)

\* DataView.setFloat32(offset, n, true): the four bytes, lowest first, of
\* the IEEE 754 single nearest to n (ties to even)
float32Bytes(n) ==
  LET sign == IF n < 0 THEN 1 ELSE 0
      a == IF n < 0 THEN 0 - n ELSE n
      e0 == exponentOf(a)
      ulp == pow2(e0 - 23)
      q == a \div ulp
      rest == a % ulp
      up == 2 * rest > ulp \/ (2 * rest = ulp /\ q % 2 = 1)
      rounded == (IF up THEN q + 1 ELSE q) * ulp
      e == exponentOf(rounded)
      mant == (IF e >= 23 THEN rounded \div pow2(e - 23) ELSE rounded * pow2(23 - e))
              - pow2(23)
      biased == e + 127
  IN  IF a = 0 THEN <<0, 0, 0, sign * 128>>
      ELSE << mant % 256, (mant \div 256) % 256,
              (biased % 2) * 128 + mant \div 65536,
              sign * 128 + biased \div 2 >>

\* DataView.getFloat32(offset, true) of four bytes that hold an integer
float32Value(b) ==
  LET sign == b[4] \div 128
      biased == (b[4] % 128) * 2 + b[3] \div 128
      mant == (b[3] % 128) * 65536 + b[2] * 256 + b[1]
      e == biased - 127
      full == pow2(23) + mant
      a == IF biased = 0 THEN 0
           ELSE IF e >= 23 THEN full * pow2(e - 23) ELSE full \div pow2(23 - e)
  IN  IF sign = 1 THEN 0 - a ELSE a

\* the twelve bytes written for a vector that is present
vectorBytes(v) ==
  IF v = Undefined THEN << >>
  ELSE float32Bytes(v.x) \o float32Bytes(v.y) \o float32Bytes(v.z)

\* serializePlayerUpdate writing the velocity before the rotation
serializePlayerUpdateVelocityFirst(position, rotation, velocity) ==
  LET flags == (IF position # Undefined THEN 1 ELSE 0)
                 + (IF rotation # Undefined THEN 2 ELSE 0)
                 + (IF velocity # Undefined THEN 4 ELSE 0)
  IN  <<flags>> \o vectorBytes(position) \o vectorBytes(velocity)
                \o vectorBytes(rotation)

serializePlayerUpdate(position, rotation, velocity) ==
  LET hasPosition == position # Undefined
      hasRotation == rotation # Undefined
      hasVelocity == velocity # Undefined
      flags == (IF hasPosition THEN 1 ELSE 0) + (IF hasRotation THEN 2 ELSE 0)
                 + (IF hasVelocity THEN 4 ELSE 0)
  IN  <<flags>> \o vectorBytes(position) \o vectorBytes(rotation)
                \o vectorBytes(velocity)

\* the vector read at byte offset `offset` (0-based) of the buffer
readVector(buffer, offset) ==
  [x |-> float32Value(SubSeq(buffer, offset + 1, offset + FLOAT_SIZE)),
   y |-> float32Value(SubSeq(buffer, offset + FLOAT_SIZE + 1, offset + 2 * FLOAT_SIZE)),
   z |-> float32Value(SubSeq(buffer, offset + 2 * FLOAT_SIZE + 1,
                             offset + 3 * FLOAT_SIZE))]

deserializePlayerUpdate(buffer) ==
  LET flags == buffer[1]
      hasPosition == flags % 2 = 1
      hasRotation == (flags \div 2) % 2 = 1
      hasVelocity == (flags \div 4) % 2 = 1
      offset1 == 1
      offset2 == IF hasPosition THEN offset1 + 3 * FLOAT_SIZE ELSE offset1
      offset3 == IF hasRotation THEN offset2 + 3 * FLOAT_SIZE ELSE offset2
  IN  Merge(Merge(IF hasPosition THEN [position |-> readVector(buffer, offset1)]
                  ELSE << >>,
                  IF hasRotation THEN [rotation |-> readVector(buffer, offset2)]
                  ELSE << >>),
            IF hasVelocity THEN [velocity |-> readVector(buffer, offset3)] ELSE << >>)

\* the arguments of serializePlayerUpdate: absent, or a vector whose
\* components do or do not fit the 24-bit significand
VectorInputs ==
  {Undefined, ZeroVec, Vec(1, 0 - 3, 100), Vec(16777217, 0 - 16777219, 33554438),
   Vec(0 - 1, 50331651, 8388607)}

\* a packet is serialized and the buffer deserialized; lastOp records both
RoundTrip(position, rotation, velocity) ==
  /\ lastOp' = [seq |-> 1 - lastOp.seq, op |-> "serializePlayerUpdate", id |-> "",
                updates |-> <<position, rotation, velocity>>,
                ret |-> <<serializePlayerUpdate(position, rotation, velocity),
                          deserializePlayerUpdate(
                            serializePlayerUpdate(position, rotation, velocity))>>]
  /\ UNCHANGED <<now, players, usedNames, conns, everConn, timers, toServer,
                 toClient, store, local, emitted, leftSeen, released, lastScan, steps>>

-----------------------------------------------------------------------------
(* The link of a client to the server as its SocketService sees it         *)
(* (socketService.ts 16-57).  The socket is null or a socket.io socket     *)
(* with its status and the number of reconnection attempts its manager     *)
(* has started; the manager is configured with reconnectionAttempts.  The  *)
(* other specifications do not model the transport events.                 *)

reconnectionAttempts == 5

Socket(status, attempts) == [status |-> status, attempts |-> attempts]

\* the manager after an attempt to open the transport failed: it starts
\* the next reconnection attempt, or gives up when the limit is reached
reconnect(socket) ==
  IF socket.attempts >= reconnectionAttempts THEN Socket("closed", socket.attempts)
  ELSE Socket("opening", socket.attempts + 1)

\* the 'connect' and 'disconnect' listeners ignoring the disconnect event
onTransportEventConnectOnly(st, event) ==
  IF event = "connect" THEN [st EXCEPT !.isConnected = TRUE] ELSE st

\* setupListeners: the 'connect' and 'disconnect' listeners on the store
onTransportEvent(st, event) ==
  IF event = "connect" THEN [st EXCEPT !.isConnected = TRUE]
  ELSE IF event = "disconnect" THEN [st EXCEPT !.isConnected = FALSE]
  ELSE st

\* one step of client c's service; lastOp records the call or event
LinkStep(c, what, socket, st) ==
  /\ local' = [local EXCEPT ![c].socket = socket]
  /\ store' = [store EXCEPT ![c] = st]
  /\ lastOp' = [seq |-> 1 - lastOp.seq, op |-> what, id |-> c, updates |-> << >>,
                ret |-> Null]
  /\ UNCHANGED <<now, players, usedNames, conns, everConn, timers, toServer,
                 toClient, emitted, leftSeen, released, lastScan, steps>>

\* SocketService.connect(): returns early when there is a socket
ServiceConnect(c) ==
  /\ local[c].socket = Null
  /\ LinkStep(c, "connect()", Socket("opening", 0), store[c])

\* SocketService.disconnect(): socket.disconnect() fires 'disconnect' on a
\* connected socket; then the socket is dropped and the flag cleared
ServiceDisconnect(c) ==
  /\ local[c].socket # Null
  /\ LinkStep(c, "disconnect()", Null,
              [(IF local[c].socket.status = "connected"
                THEN onTransportEvent(store[c], "disconnect") ELSE store[c])
               EXCEPT !.isConnected = FALSE])

\* the transport opened: the socket fires 'connect'
TransportConnect(c) ==
  /\ local[c].socket # Null
  /\ local[c].socket.status = "opening"
  /\ LinkStep(c, "connect", Socket("connected", 0), onTransportEvent(store[c], "connect"))

\* an attempt to open the transport failed
TransportError(c) ==
  /\ local[c].socket # Null
  /\ local[c].socket.status = "opening"
  /\ LinkStep(c, "connect_error", reconnect(local[c].socket), store[c])

\* the connection is lost, or closed by the server (byServer): the socket
\* fires 'disconnect', and the manager reconnects only after a loss
TransportDisconnect(c, byServer) ==
  /\ local[c].socket # Null
  /\ local[c].socket.status = "connected"
  /\ LinkStep(c, "disconnect",
              IF byServer THEN Socket("closed", 0) ELSE reconnect(local[c].socket),
              onTransportEvent(store[c], "disconnect"))

-----------------------------------------------------------------------------
(* The App component (App.tsx 27-59): one effect with the dependencies     *)
(* [isConnected, playerId].  local[c].app is null while App is not         *)
(* mounted and otherwise holds the dependencies of the effect that React   *)
(* last ran.                                                               *)

\* SocketService.disconnect() as a function of the socket and the store
disconnectSocket(socket, st) ==
  IF socket = Null THEN [socket |-> Null, st |-> st]
  ELSE [socket |-> Null,
        st |-> [(IF socket.status = "connected"
                 THEN onTransportEvent(st, "disconnect") ELSE st)
                EXCEPT !.isConnected = FALSE]]

\* SocketService.connect() as a function of the socket
connectSocket(socket) == IF socket = Null THEN Socket("opening", 0) ELSE socket

\* the values of the effect's dependencies in a render of App
effectDeps(st) == [isConnected |-> st.isConnected, playerId |-> st.playerId]

\* one step of the App of client c; lastOp records whether the step called
\* socketService.disconnect()
AppStep(c, what, app, cleanup, socket, st) ==
  /\ local' = [local EXCEPT ![c].socket = socket, ![c].app = app]
  /\ store' = [store EXCEPT ![c] = st]
  /\ lastOp' = [seq |-> 1 - lastOp.seq, op |-> what, id |-> c,
                updates |-> [cleanup |-> cleanup], ret |-> Null]
  /\ UNCHANGED <<now, players, usedNames, conns, everConn, timers, toServer,
                 toClient, emitted, leftSeen, released, lastScan, steps>>

\* App mounts: the effect runs for the first time
AppMount(c) ==
  /\ local[c].app = Null
  /\ AppStep(c, "mount", effectDeps(store[c]), FALSE,
             connectSocket(local[c].socket), store[c])

\* App has rendered with dependencies that differ from those of the last
\* effect: React runs that effect's cleanup and then the effect again
AppEffect(c) ==
  /\ local[c].app # Null
  /\ effectDeps(store[c]) # local[c].app
  /\ LET d == disconnectSocket(local[c].socket, store[c])
     IN  AppStep(c, "effect", effectDeps(store[c]), TRUE, connectSocket(d.socket), d.st)

\* App unmounts: the cleanup of the last effect runs
AppUnmount(c) ==
  /\ local[c].app # Null
  /\ LET d == disconnectSocket(local[c].socket, store[c])
     IN  AppStep(c, "unmount", Null, TRUE, d.socket, d.st)

\* the game:state that the server's connection callback emits arrives on
\* a connected socket
ReceiveGameState(c) ==
  /\ local[c].socket # Null
  /\ local[c].socket.status = "connected"
  /\ store[c].playerId = ""
  /\ LinkStep(c, "game:state", local[c].socket,
              OnServerMessage(store[c],
                              Msg("game:state",
                                  [playerId |-> c, players |-> {SamplePlayer(c)}]),
                              now))

-----------------------------------------------------------------------------
(* Specifications *)

Init ==
  /\ now = StartTime
  /\ players = << >>
  /\ usedNames = {}
  /\ conns = {}
  /\ everConn = {}
  /\ timers = {}
  /\ toServer = [c \in SocketIds |-> << >>]
  /\ toClient = [c \in SocketIds |-> << >>]
  /\ store = [c \in SocketIds |->
                [playerId |-> "", players |-> << >>, isConnected |-> FALSE]]
  /\ local = [c \in SocketIds |->
                [treeCollisionTimestamps |-> << >>, lastUpdateRef |-> 0,
                 socket |-> Null, app |-> Null]]
  /\ lastOp = [seq |-> 0, op |-> "none", id |-> "", updates |-> << >>, ret |-> Null]
  /\ emitted = << >>
  /\ leftSeen = [c \in SocketIds |-> {}]
  /\ released = {}
  /\ steps = 0
  /\ lastScan = [seq |-> 0, client |-> "", damaged |-> {}, collided |-> {},
                 trees |-> {}, sent |-> << >>]

\* The whole system: connections, the name traffic, the
\* delayed re-broadcasts and the client stores.
Next ==
  \/ \E s \in SocketIds : Connect(s)
  \/ \E s \in SocketIds : ServerReceive(s)
  \/ \E s \in SocketIds : Disconnect(s)
  \/ \E tm \in timers : FireTimer(tm)
  \/ Tick(1000, SystemHorizon)
  \/ \E c \in SocketIds : ClientReceive(c)
  \/ \E c \in SocketIds, n \in TypedNames : ClientSetName(c, n)

Spec == Init /\ [][Next]_vars

\* The handlers of any socket id, registered or not, run on any registry.
NextApi ==
  \/ \E id \in SocketIds : ApiAddPlayer(id)
  \/ \E s \in SocketIds, m \in HandlerMessages : InvokeHandler(s, m)
  \/ \E s \in SocketIds : InvokeDisconnect(s)
  \/ Tick(1000, ApiHorizon)

SpecApi == Init /\ [][NextApi]_vars

\* The name traffic of the registered sockets.
NextNames ==
  \/ \E id \in SocketIds : ApiAddPlayer(id)
  \/ \E s \in DOMAIN players, m \in NameMessages : InvokeHandler(s, m)
  \/ \E s \in DOMAIN players : InvokeDisconnect(s)

SpecNames == Init /\ [][NextNames]_vars

\* the instants at which a timer expires, a spawn protection ends or a
\* collision cooldown ends on some client
Deadlines ==
  {tm.due : tm \in timers}
  \cup UNION {
       {store[c].players[p].joinTime + SPAWN_PROTECTION_TIME : p \in DOMAIN store[c].players}
       \cup {store[c].players[p].lastCollision + COLLISION_COOLDOWN :
               p \in {q \in DOMAIN store[c].players :
                        "lastCollision" \in DOMAIN store[c].players[q]}}
       \cup {local[c].treeCollisionTimestamps[i] + COLLISION_COOLDOWN :
               i \in DOMAIN local[c].treeCollisionTimestamps} :
       c \in SocketIds}

\* the clock moves on to the next such instant
Advance(horizon) ==
  LET later == {d \in Deadlines : d > now}
  IN  /\ later # {}
      /\ Tick((CHOOSE d \in later : \A e \in later : d <= e) - now, horizon)

\* Driving: connections, frames with vehicle and tree collisions, the
\* published updates and their broadcasts.
NextCollision ==
  \/ \E s \in SocketIds : Connect(s)
  \/ \E s \in SocketIds : ServerReceive(s)
  \/ \E tm \in timers : FireTimer(tm)
  \/ Advance(CollisionHorizon)
  \/ \E c \in SocketIds : ClientReceive(c)
  \/ \E c \in Drivers, p \in FramePositions, v \in FrameVelocities :
       Delivered /\ Frame(c, p, v, Trees) /\ Count(MaxFrames)

SpecCollision == Init /\ [][NextCollision]_vars

\* One vehicle driven at full speed through the trees.
NextDamage ==
  \/ \E s \in SocketIds : Connect(s)
  \/ \E s \in SocketIds : ServerReceive(s)
  \/ \E tm \in timers : FireTimer(tm)
  \/ Advance(CollisionHorizon)
  \/ \E c \in SocketIds : ClientReceive(c)
  \/ \E c \in Drivers, p \in FramePositions, v \in FrameVelocities \ {ZeroVec} :
       Delivered /\ Frame(c, p, v, Trees) /\ Count(MaxDamageFrames)

SpecDamage == Init /\ [][NextDamage]_vars

\* the trees of the chunk the vehicle drives into
FarTrees == {Vec(25600, 0, 0)}

\* a frame of the render loop: the loop runs for as long as the Vehicle is
\* mounted, so the number of frames is not limited
KeepDriving ==
  \E c \in Drivers, p \in FramePositions, v \in FrameVelocities \ {ZeroVec},
     trees \in {Trees, FarTrees} :
    Delivered /\ Frame(c, p, v, trees) /\ UNCHANGED steps

\* One vehicle driven for ever, past the trees and away from them.
NextCleanup ==
  \/ \E s \in Drivers : Connect(s)
  \/ \E s \in Drivers : ServerReceive(s)
  \/ \E tm \in timers : FireTimer(tm)
  \/ Advance(CollisionHorizon)
  \/ \E c \in Drivers : ClientReceive(c)
  \/ KeepDriving

\* requestAnimationFrame keeps calling the frame callback, the clock runs,
\* and the event loops of server and client run every pending callback
SpecCleanup ==
  /\ Init /\ [][NextCleanup]_vars
  /\ WF_vars(KeepDriving)
  /\ WF_vars(Advance(CollisionHorizon))
  /\ WF_vars(\E tm \in timers : FireTimer(tm))
  /\ \A s \in Drivers : WF_vars(ServerReceive(s)) /\ WF_vars(ClientReceive(s))

\* The store's actions on one client's store.
NextStore ==
  \/ \E p1 \in SamplePlayers("s1"), p2 \in SamplePlayers("s2") :
       StoreSetPlayers("s1", {p1, p2})
  \/ \E id \in SocketIds, d \in DamageAmounts : StoreDamagePlayer("s1", id, d)
  \/ \E id \in SocketIds : StoreRemovePlayer("s1", id)
  \/ \E id \in SocketIds : StoreCheckVehicleCollisions("s1", id)
  \/ \E id \in SocketIds, u \in StoreUpdates : StoreUpdatePlayer("s1", id, u)
  \/ Tick(1000, ApiHorizon)

SpecStore == Init /\ [][NextStore]_vars

\* The generators called with seeds and coordinates from small sets.
NextWorld ==
  \/ \E seed \in WorldSeeds, x \in WorldCoords, z \in WorldCoords : GetChunk(seed, x, z)
  \/ \E seed \in WorldSeeds, x \in {0 - 1, 0, 1}, z \in {0 - 1, 0, 1} :
       RenderChunk(seed, x, z)

SpecWorld == Init /\ [][NextWorld]_vars

\* The framing functions applied to every combination of the inputs.
NextWire ==
  \E position \in VectorInputs, rotation \in VectorInputs, velocity \in VectorInputs :
    RoundTrip(position, rotation, velocity)

SpecWire == Init /\ [][NextWire]_vars

\* The services of the clients and their transports.
NextLink ==
  \/ \E c \in SocketIds : ServiceConnect(c)
  \/ \E c \in SocketIds : ServiceDisconnect(c)
  \/ \E c \in SocketIds : TransportConnect(c)
  \/ \E c \in SocketIds : TransportError(c)
  \/ \E c \in SocketIds, byServer \in BOOLEAN : TransportDisconnect(c, byServer)

SpecLink == Init /\ [][NextLink]_vars

\* The App of each client with its service and transport.
NextApp ==
  \/ \E c \in SocketIds : AppMount(c)
  \/ \E c \in SocketIds : AppEffect(c)
  \/ \E c \in SocketIds : AppUnmount(c)
  \/ \E c \in SocketIds : TransportConnect(c)
  \/ \E c \in SocketIds : TransportError(c)
  \/ \E c \in SocketIds, byServer \in BOOLEAN : TransportDisconnect(c, byServer)
  \/ \E c \in SocketIds : ReceiveGameState(c)

SpecApp == Init /\ [][NextApp]_vars

-----------------------------------------------------------------------------
(* Properties *)

\* the step was a PlayerManager call (lastOp' describes it)
RegistryCalled == lastOp'.seq # lastOp.seq

sameName(a, b) == toLowerCase(a) = toLowerCase(b)

GeneratedNames == {PlayerPrefix \o h : h \in generateRandomHex(6)}

\* C1: no two registered players have names that are equal when compared
\* case-insensitively.
C1_NameUniqueness ==
  \A a \in DOMAIN players : \A b \in DOMAIN players :
    a # b => ~sameName(players[a].name, players[b].name)

\* C2: the keys of the registry's player map are exactly the ids of the live
\* connections.
C2_RegistryMatchesConnections == DOMAIN players = conns

C2_Witness ==
  /\ conns # {}
  /\ everConn \ conns # {}
  /\ lastOp.op = "updatePlayer"
  /\ lastOp.id \in conns

\* the (player id, name) pairs a server message carries
NamesCarried(e) ==
  CASE e.event = "game:state" ->
         {[id |-> p.id, name |-> p.name] : p \in e.payload.players}
    [] e.event = "player:joined" ->
         {[id |-> e.payload.id, name |-> e.payload.name]}
    [] e.event \in {"game:update", "player:customized", "player:nameupdated"} ->
         IF "name" \in DOMAIN e.payload
         THEN {[id |-> e.payload.playerId, name |-> e.payload.name]} ELSE {}
    [] OTHER -> {}

\* C4: every name the server broadcasts for a registered player equals the
\* registry's name for that player at the time of the broadcast (emitted
\* holds the messages of the latest server callback, and the registry only
\* changes in server callbacks).
C4_BroadcastNamesMatchRegistry ==
  \A i \in DOMAIN emitted : \A n \in NamesCarried(emitted[i]) :
    n.id \in DOMAIN players => players[n.id].name = n.name

\* C5: updatePlayer(id, {name}) on a registered id with an empty or
\* whitespace-only name stores a non-empty, server-generated name.
C5_EmptyNameReplaced ==
  ( /\ lastOp.op = "updatePlayer"
    /\ lastOp.ret # Null
    /\ "name" \in DOMAIN lastOp.updates
    /\ trim(lastOp.updates.name) = << >> )
  => /\ lastOp.ret.name # << >>
     /\ lastOp.ret.name \in GeneratedNames

\* C6: once the holder of name N has been removed and no registered player
\* holds a name case-insensitively equal to N, the next
\* updatePlayer(id, {name: N}) on a registered id assigns exactly N.
C6_NameReleasedOnRemoval ==
  [][ ( /\ RegistryCalled
        /\ lastOp'.op = "updatePlayer"
        /\ lastOp'.id \in DOMAIN players
        /\ "name" \in DOMAIN lastOp'.updates
        /\ lastOp'.updates.name \in released
        /\ \A q \in DOMAIN players : ~sameName(players[q].name, lastOp'.updates.name) )
      => players'[lastOp'.id].name = lastOp'.updates.name ]_vars

\* C7: updatePlayer, respawnPlayer and removePlayer on an id with no record
\* return null, null and false and leave the player map and the reserved
\* names as they were; removePlayer on a registered id returns true and
\* removes the record (so a second removal returns false).
C7_UnknownIdIsNoOp ==
  [][ ( /\ RegistryCalled
        /\ lastOp'.op \in {"updatePlayer", "respawnPlayer", "removePlayer"} )
      => IF lastOp'.id \notin DOMAIN players
         THEN /\ lastOp'.ret = IF lastOp'.op = "removePlayer" THEN Bool(FALSE) ELSE Null
              /\ players' = players
              /\ usedNames' = usedNames
         ELSE lastOp'.op = "removePlayer"
                => /\ lastOp'.ret = Bool(TRUE)
                   /\ lastOp'.id \notin DOMAIN players' ]_vars

C7_Witness ==
  /\ lastOp.op = "updatePlayer"
  /\ lastOp.ret = Null
  /\ "name" \in DOMAIN lastOp.updates
  /\ DOMAIN players # {}
  /\ usedNames # {}

\* C8: a handler whose registry call returned the null/false sentinel emits
\* no broadcast.
C8_SentinelMeansNoBroadcast ==
  [][ ( /\ RegistryCalled
        /\ lastOp'.op \in {"updatePlayer", "respawnPlayer", "removePlayer"}
        /\ lastOp'.ret \in {Null, Bool(FALSE)} )
      => emitted' = << >> ]_vars

\* C9: respawnPlayer on a registered id yields health 100, zero velocity and
\* joinTime = lastUpdate = the time of the call, and leaves id, name, color,
\* the registered ids and the reserved names unchanged.
C9_RespawnResetsVitals ==
  [][ ( /\ RegistryCalled
        /\ lastOp'.op = "respawnPlayer"
        /\ lastOp'.id \in DOMAIN players )
      => LET old == players[lastOp'.id]
             new == players'[lastOp'.id]
         IN  /\ lastOp'.ret = new
             /\ new.health = 100
             /\ new.velocity = ZeroVec
             /\ new.joinTime = now
             /\ new.lastUpdate = now
             /\ new.id = old.id
             /\ new.name = old.name
             /\ new.color = old.color
             /\ DOMAIN players' = DOMAIN players
             /\ usedNames' = usedNames ]_vars

C9_Witness ==
  /\ lastOp.op = "respawnPlayer"
  /\ lastOp.ret # Null
  /\ lastOp.ret.joinTime > StartTime
  /\ lastOp.ret.color = "#448AFF"
  /\ \E id \in DOMAIN players : id # lastOp.id /\ players[id].health < 100

\* C3: the health of every record of the registry, of every game:update
\* payload the server broadcasts and of every record of a client store is a
\* number in [0, 100].
C3_HealthInRange ==
  /\ \A id \in DOMAIN players : players[id].health \in 0..100
  /\ \A i \in DOMAIN emitted :
       (emitted[i].event = "game:update" /\ "health" \in DOMAIN emitted[i].payload)
         => emitted[i].payload.health \in 0..100
  /\ \A c \in SocketIds : \A p \in DOMAIN store[c].players :
       store[c].players[p].health \in 0..100

\* the step was a frame of a vehicle (lastScan' describes its scans)
ScanRan == lastScan'.seq # lastScan.seq

\* C10: in a frame's vehicle and tree scans, a player of the scanning
\* client's store whose joinTime is less than SPAWN_PROTECTION_TIME before
\* the current time is never passed to damagePlayer, keeps its health, and,
\* when it is the local player, has no health update sent.
C10_SpawnProtectionGate ==
  [][ ScanRan =>
        LET c == lastScan'.client
            before == store[c].players
        IN  \A p \in DOMAIN before :
              now - before[p].joinTime < SPAWN_PROTECTION_TIME
                => /\ p \notin lastScan'.damaged
                   /\ store'[c].players[p].health = before[p].health
                   /\ p = store[c].playerId
                        => \A i \in DOMAIN lastScan'.sent :
                             "health" \notin DOMAIN lastScan'.sent[i].payload ]_vars

\* a driver past its own protection rammed a protected vehicle at speed:
\* the driver took damage, the protected vehicle did not
C10_Witness ==
  /\ lastScan.client \in conns
  /\ LET c == lastScan.client
         me == store[c].playerId
     IN  /\ me \in lastScan.damaged
         /\ \E p \in DOMAIN store[c].players \cap lastScan.collided :
              /\ p # me
              /\ now - store[c].players[p].joinTime < SPAWN_PROTECTION_TIME
              /\ store[c].players[p].health = 100
              /\ store[c].players[me].health < 100

\* the step was a call of a store action (lastOp' describes it)
StoreCalled(op) == lastOp'.seq # lastOp.seq /\ lastOp'.op = op

\* C11: damagePlayer(id, d) on a known id with health h (100 when the health
\* is not a number) sets health to max(0, h - d), a number >= 0, stamps
\* lastCollision and touches nothing else; on an unknown id the store is
\* unchanged.
C11_StoreDamage ==
  [][ StoreCalled("damagePlayer") =>
        LET c == lastOp'.updates.client
            id == lastOp'.id
            d == lastOp'.updates.amount
            before == store[c].players
            after == store'[c].players
        IN  IF id \notin DOMAIN before THEN after = before
            ELSE LET h == IF "health" \in DOMAIN before[id] THEN before[id].health
                          ELSE 100
                 IN  /\ DOMAIN after = DOMAIN before
                     /\ "health" \in DOMAIN after[id]
                     /\ after[id].health = (IF h - d > 0 THEN h - d ELSE 0)
                     /\ after[id].health >= 0
                     /\ after[id].lastCollision = now
                     /\ \A o \in DOMAIN before \ {id} : after[o] = before[o]
                     /\ \A f \in DOMAIN before[id] \ {"health", "lastCollision"} :
                          after[id][f] = before[id][f] ]_vars

\* a player whose health was not a number was damaged to 75, and another
\* was damaged past zero
C11_Witness ==
  /\ lastOp.op = "damagePlayer"
  /\ LET ps == store[lastOp.updates.client].players
     IN  /\ DOMAIN ps = SocketIds
         /\ lastOp.id \in DOMAIN ps
         /\ ps[lastOp.id].health = 0
         /\ lastOp.updates.amount = 150
         /\ \E o \in DOMAIN ps : /\ "health" \in DOMAIN ps[o]
                                  /\ "lastCollision" \in DOMAIN ps[o]
                                  /\ ps[o].health = 75

\* C12: damage is applied to the local player at most once within any
\* COLLISION_COOLDOWN window: a frame's scans damage the local player (one
\* health update sent per application) at most once, and not at all while
\* the player's last damage is less than COLLISION_COOLDOWN old.
C12_DamageOncePerCooldown ==
  [][ ScanRan =>
        LET c == lastScan'.client
            player == store[c].players[store[c].playerId]
            applied == { i \in DOMAIN lastScan'.sent :
                           "health" \in DOMAIN lastScan'.sent[i].payload }
        IN  /\ Cardinality(applied) <= 1
            /\ hasRecentCollision(player, now) => applied = {} ]_vars

\* the step delivered the head of c's channel to c's listeners
Received(c) == c \in conns' /\ Len(toClient'[c]) < Len(toClient[c])

\* C13: the connection callback emits game:state exactly once, first, to the
\* new socket only, with playerId the socket id and the new player's record
\* in the list; no other callback emits game:state; and the message a client
\* receives is game:state exactly when it is the first it receives.
C13_GameStateOnceAndFirst ==
  [][ /\ everConn' # everConn =>
           LET s == CHOOSE c \in everConn' : c \notin everConn
               gs == { i \in DOMAIN emitted' : emitted'[i].event = "game:state" }
           IN  /\ gs = {1}
               /\ emitted'[1].scope = "socket" /\ emitted'[1].from = s
               /\ emitted'[1].payload.playerId = s
               /\ \E p \in emitted'[1].payload.players : p.id = s /\ p = players'[s]
               /\ toClient'[s] # << >> /\ Head(toClient'[s]).event = "game:state"
      /\ (everConn' = everConn /\ emitted' # emitted) =>
           \A i \in DOMAIN emitted' : emitted'[i].event # "game:state"
      /\ \A c \in SocketIds :
           Received(c) =>
             /\ (Head(toClient[c]).event = "game:state") <=> (store[c].playerId = "")
             /\ store'[c].playerId = c
             /\ c \in DOMAIN store'[c].players ]_vars

\* both clients have taken their game:state, and the first to connect has
\* since received the other's player:joined
C13_Witness ==
  /\ \A c \in SocketIds : store[c].playerId = c
  /\ \E c \in SocketIds : DOMAIN store[c].players = SocketIds /\ toClient[c] = << >>
  /\ \E c \in SocketIds : emitted # << >> /\ emitted[1].event = "player:joined"

\* C14: every player:joined, player:nameupdated, player:respawned and
\* player:left event a callback emits is put on the channel of every client
\* connected after the callback, the causing connection included.
C14_EventsReachEveryClient ==
  [][ emitted' # emitted =>
        \A i \in DOMAIN emitted' :
          emitted'[i].event \in {"player:joined", "player:nameupdated",
                                 "player:respawned", "player:left"}
            => \A c \in conns' :
                 \E j \in DOMAIN toClient'[c] :
                   /\ j > Len(toClient[c])
                   /\ toClient'[c][j] = Msg(emitted'[i].event, emitted'[i].payload) ]_vars

\* C15: a player:update or player:customize callback of a registered
\* connection c changes no registry record but c's, its broadcast names c as playerId,
\* and the listener of a receiving client changes no store entry but c's.
C15_NoCrossPlayerWrites ==
  [][ (RegistryCalled /\ lastOp'.id \in DOMAIN players /\ emitted' # << >>
         /\ emitted'[1].event \in {"game:update", "player:customized"}) =>
        LET e == emitted'[1]
            s == e.from
        IN  /\ lastOp'.id = s
            /\ DOMAIN players' = DOMAIN players
            /\ \A id \in DOMAIN players \ {s} : players'[id] = players[id]
            /\ e.payload.playerId = s
            /\ \A c \in SocketIds :
                 LET after == OnServerMessage(store[c], Msg(e.event, e.payload), now)
                 IN  /\ after.playerId = store[c].playerId
                     /\ DOMAIN after.players \subseteq DOMAIN store[c].players \cup {s}
                     /\ \A id \in DOMAIN store[c].players \ {s} :
                          after.players[id] = store[c].players[id] ]_vars

\* C16: when no message is in flight and no timer callback is pending,
\* every connected client's store entry for every other connected player
\* has the name, color, position, rotation and velocity of the registry
\* record of that player.
C16_MirrorConvergence ==
  (Delivered /\ timers = {}) =>
    \A p \in conns : \A c \in conns \ {p} :
      /\ p \in DOMAIN store[c].players
      /\ \A f \in {"name", "color", "position", "rotation", "velocity"} :
           store[c].players[p][f] = players[p][f]

\* C17: two WorldGenerator instances constructed with the same seed return
\* equal chunks for the same coordinates, and two calls of the client's
\* seededRandom with the same world seed and arguments return the same
\* value, for every seed, zero and negative ones included.
C17_GeneratorDeterminism ==
  lastOp.op \in {"getChunk", "Chunk"} => lastOp.ret.first = lastOp.ret.second

\* C18: the server generator and the client's Chunk component give a chunk
\* the same class (city or not) under the same world seed.
C18_TerrainClassAgrees ==
  lastOp.op = "Chunk" =>
    \A seed \in newWorldGenerator(lastOp.updates.seed) :
      lastOp.ret.isCity
        = generateChunk(seed, lastOp.updates.x * 256, lastOp.updates.z * 256).isCity

\* C19: after serializePlayerUpdate and deserializePlayerUpdate the result
\* has exactly the vectors that were present, each component the float32
\* nearest to the input (the input itself when it fits 24 bits); the buffer
\* has 1 + 12 * (present vectors) bytes, flag bits 0, 1, 2 stand for
\* position, rotation, velocity, and the vectors lie in that order.
C19_FramingRoundTrip ==
  lastOp.op = "serializePlayerUpdate" =>
    LET in == [position |-> lastOp.updates[1], rotation |-> lastOp.updates[2],
               velocity |-> lastOp.updates[3]]
        buffer == lastOp.ret[1]
        result == lastOp.ret[2]
        present == { f \in DOMAIN in : in[f] # Undefined }
        bit == [position |-> 1, rotation |-> 2, velocity |-> 4]
        before(f) == { g \in present : bit[g] < bit[f] }
        near(v, n) ==
          LET a == IF n < 0 THEN 0 - n ELSE n
              d == IF v < n THEN n - v ELSE v - n
          IN  IF a < 16777216 THEN v = n
              ELSE 2 * d <= pow2(exponentOf(a) - 23)
    IN  /\ DOMAIN result = present
        /\ Len(buffer) = 1 + 12 * Cardinality(present)
        /\ \A f \in DOMAIN in : (buffer[1] \div bit[f]) % 2 = (IF f \in present THEN 1 ELSE 0)
        /\ buffer[1] < 8
        /\ \A f \in present :
             /\ \A k \in {"x", "y", "z"} : near(result[f][k], in[f][k])
             /\ SubSeq(buffer, 2 + 12 * Cardinality(before(f)),
                       13 + 12 * Cardinality(before(f)))
                  = vectorBytes(in[f])

\* rotation and velocity were sent without a position, the rotation with
\* components that need rounding
C19_Witness ==
  /\ lastOp.op = "serializePlayerUpdate"
  /\ lastOp.updates[1] = Undefined
  /\ lastOp.updates[2] = Vec(16777217, 0 - 16777219, 33554438)
  /\ lastOp.updates[3] = Vec(1, 0 - 3, 100)
  /\ DOMAIN lastOp.ret[2] = {"rotation", "velocity"}
  /\ lastOp.ret[2].rotation = Vec(16777216, 0 - 16777220, 33554440)
  /\ lastOp.ret[1][1] = 6

\* the step was a call or event of client c's service
LinkEvent(c, what) == lastOp'.seq # lastOp.seq /\ lastOp'.id = c /\ lastOp'.op = what

\* C20: isConnected is false after every transport 'disconnect' event and
\* every SocketService.disconnect() call, and becomes true only by a
\* transport 'connect' event; the manager starts at most reconnectionAttempts
\* reconnection attempts, and once it has given up the flag is false and
\* stays false while the socket is kept.
C20_ConnectivityFlag ==
  [][ \A c \in SocketIds :
        /\ (LinkEvent(c, "disconnect") \/ LinkEvent(c, "disconnect()"))
             => ~store'[c].isConnected
        /\ (store'[c].isConnected /\ ~store[c].isConnected) => LinkEvent(c, "connect")
        /\ local'[c].socket # Null =>
             /\ local'[c].socket.attempts <= reconnectionAttempts
             /\ local'[c].socket.status = "closed" => ~store'[c].isConnected
             /\ (local[c].socket # Null /\ local[c].socket.status = "closed")
                  => local'[c].socket = local[c].socket ]_vars

\* the last reconnection attempt of a client's manager has failed and the
\* manager has given up
C20_Witness ==
  \E c \in SocketIds :
    /\ local[c].socket = Socket("closed", reconnectionAttempts)
    /\ lastOp = [seq |-> lastOp.seq, op |-> "connect_error", id |-> c,
                 updates |-> << >>, ret |-> Null]
    /\ ~store[c].isConnected

C22_NoResurrection ==
  \A c \in SocketIds : \A p \in leftSeen[c] : p \notin DOMAIN store[c].players

\* the bounding extents of two footprints, each built from its own
\* vehicle's position, have a point in common
extentsOverlap(player1, player2) ==
  intersectsBox(createVehicleBoundingBox(player1.position),
                createVehicleBoundingBox(player2.position))

withinCollisionDistance(player1, player2) ==
  LET dx == player1.position.x - player2.position.x
      dz == player1.position.z - player2.position.z
  IN  dx * dx + dz * dz <= MAX_COLLISION_DISTANCE * MAX_COLLISION_DISTANCE

\* C23: the resolver treats another vehicle as collided with the local one
\* exactly when the two are within MAX_COLLISION_DISTANCE and the bounding
\* extents of their two footprints overlap; vehicles with disjoint extents
\* (abreast, 4 units apart) do not collide.
C23_CollisionIffExtentsOverlap ==
  [][ StoreCalled("checkVehicleCollisions") =>
        LET before == store[lastOp'.updates.client].players
            p == lastOp'.id
        IN  p \in DOMAIN before =>
              \A o \in DOMAIN before \ {p} :
                /\ checkVehicleCollision(before[p], before[o])
                     <=> (o \in lastOp'.updates.collided)
                /\ (o \in lastOp'.updates.collided)
                     <=> ( /\ withinCollisionDistance(before[p], before[o])
                           /\ extentsOverlap(before[p], before[o]) ) ]_vars

\* the values the closure made by generateChunk(seed, x, z) hands out first
chunkDraws(seed, x, z) ==
  draws(seed + (x \div 256) * 16777259 + (z \div 256) * 16777213, 8)

\* C24: every value of the seeded generators lies in [0, 1): the server's
\* closure gives numerators in 0..233279 and the client's seededRandom
\* numerators in 0..2147483646, for every seed and chunk coordinates.
C24_RandomInUnitInterval ==
  /\ lastOp.op = "getChunk" =>
       \A s \in newWorldGenerator(lastOp.updates.seed) :
         LET d == chunkDraws(s, lastOp.updates.x, lastOp.updates.z)
         IN  \A i \in 1..Len(d) : d[i] >= 0 /\ d[i] < 233280
  /\ lastOp.op = "Chunk" =>
       /\ lastOp.ret.first >= 0 /\ lastOp.ret.first < 2147483647
       /\ lastOp.ret.second >= 0 /\ lastOp.ret.second < 2147483647

\* the record of a collision with tree id is older than the cooldown
Expired(c, id) ==
  /\ id \in DOMAIN local[c].treeCollisionTimestamps
  /\ now - local[c].treeCollisionTimestamps[id] >= COLLISION_COOLDOWN

\* C25: as frames keep running, a treeCollisionTimestamps entry older than
\* COLLISION_COOLDOWN is eventually removed, whatever the vehicle does.
C25_ExpiredEntriesRemoved ==
  \A c \in Drivers : \A tree \in Trees :
    Expired(c, treeId(tree)) ~> ~Expired(c, treeId(tree))

\* C26: the store's updatePlayer(id, partial) on a known id changes exactly
\* the fields named in partial and no other player; on an unknown id it
\* creates the entry from the defaults overlaid by partial; setPlayers(list)
\* makes the key set exactly the ids in list.
C26_StoreUpdateFrame ==
  [][ /\ StoreCalled("updatePlayer") =>
           LET before == store[lastOp'.updates.client].players
               after == store'[lastOp'.updates.client].players
               id == lastOp'.id
               partial == lastOp'.updates.partial
               defaults == [id |-> id,
                            name |-> <<"P", "l", "a", "y", "e", "r", " ">>
                                       \o SocketIdChars[id],
                            position |-> Vec(0, 0, 0), rotation |-> Vec(0, 0, 0),
                            velocity |-> Vec(0, 0, 0), color |-> "#FF5252",
                            health |-> 100, lastUpdate |-> now, joinTime |-> now]
               old == IF id \in DOMAIN before THEN before[id] ELSE defaults
           IN  /\ DOMAIN after = DOMAIN before \cup {id}
               /\ \A o \in DOMAIN before \ {id} : after[o] = before[o]
               /\ DOMAIN after[id] = DOMAIN old \cup DOMAIN partial
               /\ \A f \in DOMAIN after[id] :
                    after[id][f] = IF f \in DOMAIN partial THEN partial[f] ELSE old[f]
      /\ StoreCalled("setPlayers") =>
           DOMAIN store'[lastOp'.updates.client].players
             = {p.id : p \in lastOp'.updates.list} ]_vars

\* updatePlayer({health: 40}) has run on a player that was moving: the
\* health is 40 and the velocity is the one the player had
C26_Witness ==
  /\ lastOp.op = "updatePlayer"
  /\ lastOp.updates.partial = [health |-> 40]
  /\ LET ps == store[lastOp.updates.client].players
     IN  /\ lastOp.id \in DOMAIN ps
         /\ ps[lastOp.id].health = 40
         /\ ps[lastOp.id].velocity = Vec(200, 0, 0)
         /\ ps[lastOp.id].joinTime = StartTime - SPAWN_PROTECTION_TIME

\* C27: the registry's usedNames is exactly the set of the names held by
\* the registered players.
C27_UsedNamesAreHeldNames ==
  usedNames = {players[p].name : p \in DOMAIN players}

\* C30: updatePlayer(id, {name: N}) where N is, case-insensitively, the
\* name the player already holds and no other player holds it leaves the
\* player's name equal to N, without a suffix.
C30_RenameToOwnName ==
  [][ ( /\ RegistryCalled
        /\ lastOp'.op = "updatePlayer"
        /\ lastOp'.id \in DOMAIN players
        /\ "name" \in DOMAIN lastOp'.updates
        /\ sameName(players[lastOp'.id].name, lastOp'.updates.name)
        /\ \A q \in DOMAIN players \ {lastOp'.id} :
             ~sameName(players[q].name, lastOp'.updates.name) )
      => players'[lastOp'.id].name = lastOp'.updates.name ]_vars

\* C29: once the connection is up (isConnected set by 'connect', playerId
\* set by game:state), App does not call socketService.disconnect() as long
\* as it stays mounted.
C29_StableConnection ==
  [][ \A c \in SocketIds :
        ( /\ local[c].app # Null /\ local'[c].app # Null
          /\ store[c].isConnected /\ store[c].playerId # ""
          /\ lastOp'.seq # lastOp.seq /\ lastOp'.id = c
          /\ lastOp'.op \in {"mount", "effect", "unmount"} )
        => ~lastOp'.updates.cleanup ]_vars

\* C28: when a frame's scans damage the local player, the health sent in
\* player:update is the health the local store holds after damagePlayer.
C28_SentHealthIsStoreHealth ==
  [][ ScanRan =>
        LET c == lastScan'.client
            applied == { i \in DOMAIN lastScan'.sent :
                           "health" \in DOMAIN lastScan'.sent[i].payload }
            last == CHOOSE i \in applied : \A j \in applied : j <= i
        IN  applied # {} =>
              lastScan'.sent[last].payload.health
                = store'[c].players[store[c].playerId].health ]_vars

====
